---- MODULE Spec2Model ----
(***************************************************************************)
(* The tiered rate limiter of src/backend/core/api/utils.py:               *)
(* AIDocumentRateThrottle and AIUserRateThrottle over the shared django    *)
(* cache.  Python None is the empty sequence <<>> and a present value v    *)
(* is <<v>> wherever a value may be None.                                  *)
(***************************************************************************)
EXTENDS Integers, Sequences, FiniteSets, TLC

\* ------------------------------------------------------------------ bounds

\* number of allow_request calls in one behaviour of calls run one at a time
MaxCalls == 3

\* number of allow_request calls in one behaviour of calls on one document
\* or user, where a call is the two steps Begin and Finish
MaxRaceCalls == 4

\* ------------------------------------------------------ program constants

MINUTE == 60

HOUR == 3600

DAY == 86400

\* cache.set(..., timeout=86400)
CACHE_TIMEOUT == 86400

None == <<>>

Some(v) == <<v>>

\* the throttle objects of a behaviour; each is an instance of one class
Throttles == {"t1", "t2"}

Classes == {"AIDocumentRateThrottle", "AIUserRateThrottle"}

Rates(minute, hour, day) == [minute |-> minute, hour |-> hour, day |-> day]

\* a deployment: settings.AI_DOCUMENT_RATE_THROTTLE_RATES and
\* settings.AI_USER_RATE_THROTTLE_RATES, and the classes of the throttle
\* objects t1 and t2
Deployments ==
  { [document |-> Rates(2, 3, 3), user |-> Rates(1, 2, 3),
     t1 |-> "AIDocumentRateThrottle", t2 |-> "AIDocumentRateThrottle"],
    [document |-> Rates(1, 2, 2), user |-> Rates(1, 5, 10),
     t1 |-> "AIDocumentRateThrottle", t2 |-> "AIUserRateThrottle"],
    [document |-> Rates(1, 2, 3), user |-> Rates(1, 1, 2),
     t1 |-> "AIUserRateThrottle", t2 |-> "AIUserRateThrottle"] }

\* the readings of time.time(): apart by less than a minute (0, 59), by
\* exactly a minute (86399, 86459), an hour (59, 3659) and a day (59, 86459),
\* and by more than a day (0, 86459)
Instants == {0, 59, 3659, 86399, 86459}

\* ---------------------------------------------------------------- requests

\* request.META is a dict: a function whose domain is the headers present.
\* The value of HTTP_X_FORWARDED_FOR is the sequence of its comma-separated
\* fields (the empty string is the one empty field).
XFF == "HTTP_X_FORWARDED_FOR"

ADDR == "REMOTE_ADDR"

EmptyMeta == [h \in {} |-> ""]

\* X-Forwarded-For: 10.0.0.1,10.0.0.2 through a proxy at 10.0.0.9
ForwardedMeta ==
  [h \in {XFF, ADDR} |-> IF h = XFF THEN <<"10.0.0.1", "10.0.0.2">> ELSE "10.0.0.9"]

\* an empty forwarded-for header and an empty REMOTE_ADDR (a unix socket)
NoAddrMeta == [h \in {XFF, ADDR} |-> IF h = XFF THEN <<"">> ELSE ""]

\* a request with the view it is routed to: view.kwargs["pk"], request.user,
\* request.META
Requests ==
  { [pk |-> "d1", is_authenticated |-> TRUE, user_id |-> 7, META |-> EmptyMeta],
    [pk |-> "d2", is_authenticated |-> TRUE, user_id |-> 7, META |-> EmptyMeta],
    [pk |-> "d1", is_authenticated |-> FALSE, user_id |-> 0, META |-> ForwardedMeta],
    [pk |-> "d1", is_authenticated |-> FALSE, user_id |-> 0, META |-> EmptyMeta],
    [pk |-> "d1", is_authenticated |-> FALSE, user_id |-> 0, META |-> NoAddrMeta] }

\* the requests that differ in what the class reads of a request: the
\* document throttle reads view.kwargs["pk"], the user throttle request.user
\* and request.META
RequestsOf(cls) ==
  IF cls = "AIDocumentRateThrottle"
    THEN { request \in Requests : request.is_authenticated }
    ELSE { request \in Requests : request.pk = "d1" }

\* dict.get(key): None when the key is absent
MetaGet(meta, h) == IF h \in DOMAIN meta THEN Some(meta[h]) ELSE None

\* truthiness of the optional forwarded-for value: None and the empty string
\* (its one field empty) are falsy
Truthy(opt) == opt # None /\ opt[1] # <<"">>

\* AIUserRateThrottle.get_ident: the first forwarded-for field, else
\* REMOTE_ADDR, else None
get_ident(request) ==
  LET x_forwarded_for == MetaGet(request.META, XFF)
  IN  IF Truthy(x_forwarded_for)
        THEN Some(x_forwarded_for[1][1])
        ELSE MetaGet(request.META, ADDR)

\* f"document_{document_id}_throttle_ai"
DocumentKey(request) ==
  [raised |-> "", key |-> Some("document_" \o request.pk \o "_throttle_ai")]

\* f"user_{request.user.id!s}_throttle_ai", or f"anonymous_{ip_addr:s}_throttle_ai";
\* the format spec "s" applied to None raises TypeError
UserKey(request) ==
  IF request.is_authenticated
    THEN [raised |-> "", key |-> Some("user_" \o ToString(request.user_id) \o "_throttle_ai")]
    ELSE LET ip_addr == get_ident(request)
         IN  IF ip_addr = None
               THEN [raised |-> "TypeError", key |-> None]
               ELSE [raised |-> "", key |-> Some("anonymous_" \o ip_addr[1] \o "_throttle_ai")]

get_cache_key(cls, request) ==
  IF cls = "AIDocumentRateThrottle" THEN DocumentKey(request) ELSE UserKey(request)

\* every key some request derives
Keys ==
  { get_cache_key(c, r).key[1] :
      <<c, r>> \in { p \in Classes \X Requests : get_cache_key(p[1], p[2]).raised = "" } }

\* ------------------------------------------------------------------- state

VARIABLES
  clock,     \* time.time()
  cache,     \* the django cache: the keys set -> [value, expires]
  settings,  \* class -> rates
  throttle,  \* throttle object -> its attributes
  frame,     \* throttle object -> the locals of its allow_request in flight
  ret,       \* throttle object -> how its last allow_request ended
  call,      \* the last allow_request that ended
  waited,    \* the wait() call that has just returned, if the last step was one
  admitted,  \* key -> the timestamps of the admitted allow_request calls on it
  ncalls,
  outage     \* the cache backend is unreachable

vars ==
  <<clock, cache, settings, throttle, frame, ret, call, waited, admitted, ncalls, outage>>

\* errors of the backend swallowed
StoreNeverRaises == FALSE

\* cache.get and cache.set raise while the backend is unreachable; allow_request
\* has no try/except, so the exception ends the call
StoreRaises == outage

\* cache.get(key, []): the default for an absent or an expired entry
cache_get(key) ==
  IF key \in DOMAIN cache /\ clock < cache[key].expires THEN cache[key].value ELSE <<>>

\* the value set under every key the cache holds
cache_set_all(key, value, timeout) ==
  [k \in DOMAIN cache \cup {key} |-> [value |-> value, expires |-> clock + timeout]]

\* cache.set(key, value, timeout=...): last write wins, the expiry restarts
cache_set(key, value, timeout) ==
  [k \in DOMAIN cache \cup {key} |->
     IF k = key THEN [value |-> value, expires |-> clock + timeout] ELSE cache[k]]

\* ---------------------------------------------------------- allow_request

\* nothing pruned
PruneNothing(history, now) == history

\* [req for req in history if req > now - 86400]
Prune(history, now) == SelectSeq(history, LAMBDA req : req > now - DAY)

\* the timestamp exactly 60 seconds old counted
CountMinuteInclusive(history, now) ==
  Len(SelectSeq(history, LAMBDA req : req >= now - MINUTE))

\* len([req for req in history if req > now - 60])
CountMinute(history, now) == Len(SelectSeq(history, LAMBDA req : req > now - MINUTE))

\* len([req for req in history if req > now - 3600])
CountHour(history, now) == Len(SelectSeq(history, LAMBDA req : req > now - HOUR))

\* len(history)
CountDay(history) == Len(history)

\* the three checks with ">" for ">=": each window admits one request more
DeniedOffByOne(self) ==
  IF self.recent_requests_minute > self.rates.minute THEN "minute"
  ELSE IF self.recent_requests_hour > self.rates.hour THEN "hour"
  ELSE IF self.recent_requests_day > self.rates.day THEN "day"
  ELSE ""

\* the day count checked against the hour threshold
DeniedDayByHour(self) ==
  IF self.recent_requests_minute >= self.rates.minute THEN "minute"
  ELSE IF self.recent_requests_hour >= self.rates.hour THEN "hour"
  ELSE IF self.recent_requests_day >= self.rates.hour THEN "day"
  ELSE ""

\* the day check left out
DeniedNoDay(self) ==
  IF self.recent_requests_minute >= self.rates.minute THEN "minute"
  ELSE IF self.recent_requests_hour >= self.rates.hour THEN "hour"
  ELSE ""

\* the three checks, in the order minute, hour, day: "" when none denies,
\* "KeyError" when the check reached looks up a threshold self.rates lacks
Denied(self) ==
  IF "minute" \notin DOMAIN self.rates THEN "KeyError"
  ELSE IF self.recent_requests_minute >= self.rates.minute THEN "minute"
  ELSE IF "hour" \notin DOMAIN self.rates THEN "KeyError"
  ELSE IF self.recent_requests_hour >= self.rates.hour THEN "hour"
  ELSE IF "day" \notin DOMAIN self.rates THEN "KeyError"
  ELSE IF self.recent_requests_day >= self.rates.day THEN "day"
  ELSE ""

\* the new timestamp put first
LoggedFirst(history, now) == <<now>> \o history

\* history.append(now)
Logged(history, now) == Append(history, now)

\* the pruned history written back by a call that denies
RejectedWritesBack(key, history) == cache_set(key, history, CACHE_TIMEOUT)

\* "return False": the cache after a call that denies
Rejected(key, history) == cache

\* the history written back without the new timestamp
AcceptedForgets(key, history, now) == cache_set(key, history, CACHE_TIMEOUT)

\* the entry written to expire after an hour
AcceptedForAnHour(key, history, now) == cache_set(key, Logged(history, now), HOUR)

\* history.append(now); cache.set(self.cache_key, history, timeout=86400):
\* the cache after a call that admits
Accepted(key, history, now) == cache_set(key, Logged(history, now), CACHE_TIMEOUT)

\* the finest window that is full
WaitFinestFirst(self) ==
  IF self.recent_requests_minute >= self.rates.minute THEN Some(MINUTE)
  ELSE IF self.recent_requests_hour >= self.rates.hour THEN Some(HOUR)
  ELSE IF self.recent_requests_day >= self.rates.day THEN Some(DAY)
  ELSE None

\* wait(): the coarsest window that is full
wait(self) ==
  IF self.recent_requests_day >= self.rates.day THEN Some(DAY)
  ELSE IF self.recent_requests_hour >= self.rates.hour THEN Some(HOUR)
  ELSE IF self.recent_requests_minute >= self.rates.minute THEN Some(MINUTE)
  ELSE None

\* wait() raises KeyError when the check it reaches looks up a threshold
\* self.rates lacks
wait_raises(self) ==
  IF "day" \notin DOMAIN self.rates THEN TRUE
  ELSE IF self.recent_requests_day >= self.rates.day THEN FALSE
  ELSE IF "hour" \notin DOMAIN self.rates THEN TRUE
  ELSE IF self.recent_requests_hour >= self.rates.hour THEN FALSE
  ELSE "minute" \notin DOMAIN self.rates

\* --------------------------------------------------------------------- Init

EmptyCache == [k \in {} |-> [value |-> <<>>, expires |-> 0]]

\* the record of an allow_request that ended: its throttle object and
\* request, the key, time.time() and the history it read, the cache and the
\* admissions on the key before it, how it ended, and, when it denied, how
\* many denials on the key it ends a run of and the key's entry (None when
\* absent) before that run
NoCall ==
  [throttle |-> "", request |-> None, key |-> None, now |-> 0, read |-> <<>>,
   before |-> EmptyCache, admitted_before |-> <<>>, result |-> "",
   run |-> 0, run_before |-> None]

NoRet == [allow |-> "", now |-> 0, read |-> <<>>]

NoWait == [throttle |-> "", value |-> None, raised |-> ""]

Idle == [pc |-> "idle", request |-> None, now |-> 0, history |-> <<>>]

\* __init__ of each throttle object
Construct(cls, rates) ==
  [cls |-> cls, rates |-> rates, cache_key |-> None,
   recent_requests_minute |-> 0, recent_requests_hour |-> 0, recent_requests_day |-> 0]

\* the state after the throttle objects of one of the deployments are
\* constructed
Start(deployments) ==
  /\ clock = 0
  /\ cache = EmptyCache
  /\ outage = FALSE
  /\ \E d \in deployments :
       /\ settings = [AIDocumentRateThrottle |-> d.document, AIUserRateThrottle |-> d.user]
       /\ throttle = [t \in Throttles |->
                        LET cls == IF t = "t1" THEN d.t1 ELSE d.t2
                        IN  Construct(cls, settings[cls])]
  /\ frame = [t \in Throttles |-> Idle]
  /\ ret = [t \in Throttles |-> NoRet]
  /\ call = NoCall
  /\ waited = NoWait
  /\ admitted = [k \in Keys |-> <<>>]
  /\ ncalls = 0

Init == Start(Deployments)

\* ------------------------------------------------------------------ actions

\* the user throttle taking every key for an empty one
EnteredAnyKeyEmpty(self, request) ==
  LET k == get_cache_key(self.cls, request)
  IN  [raised |-> k.raised,
       fallback |-> k.raised = "" /\ self.cls = "AIUserRateThrottle",
       self |-> IF k.raised = "" THEN [self EXCEPT !.cache_key = k.key] ELSE self]

\* self.cache_key = self.get_cache_key(request, view), and for the user
\* throttle the test "if not self.cache_key"
Entered(self, request) ==
  LET k == get_cache_key(self.cls, request)
  IN  [raised |-> k.raised,
       fallback |-> /\ k.raised = ""
                    /\ self.cls = "AIUserRateThrottle"
                    /\ (k.key = None \/ k.key[1] = ""),
       self |-> IF k.raised = "" THEN [self EXCEPT !.cache_key = k.key] ELSE self]

\* the pruned history and the three counts left on the throttle object
Evaluated(self, now, read) ==
  LET history == Prune(read, now)
  IN  [history |-> history,
       self |-> [self EXCEPT !.recent_requests_minute = CountMinute(history, now),
                             !.recent_requests_hour = CountHour(history, now),
                             !.recent_requests_day = CountDay(history)]]

\* get_cache_key raises: allow_request ends with the exception
Raise(t, request, exc) ==
  /\ ret' = [ret EXCEPT ![t] = [NoRet EXCEPT !.allow = exc]]
  /\ call' = [NoCall EXCEPT !.throttle = t, !.request = Some(request), !.now = clock,
                            !.before = cache, !.result = exc]
  /\ UNCHANGED <<throttle, cache, admitted>>

\* "return True  # Allow requests if no cache key (fallback)"
Fallback(t, self, request) ==
  /\ throttle' = [throttle EXCEPT ![t] = self]
  /\ ret' = [ret EXCEPT ![t] = [NoRet EXCEPT !.allow = "True"]]
  /\ call' = [NoCall EXCEPT !.throttle = t, !.request = Some(request), !.now = clock,
                            !.key = self.cache_key, !.before = cache, !.result = "True"]
  /\ UNCHANGED <<cache, admitted>>

\* cache.get raises: allow_request ends with the exception, the key set
Failed(t, self, request, exc) ==
  /\ throttle' = [throttle EXCEPT ![t] = self]
  /\ ret' = [ret EXCEPT ![t] = [NoRet EXCEPT !.allow = exc]]
  /\ call' = [NoCall EXCEPT !.throttle = t, !.request = Some(request), !.now = clock,
                            !.key = self.cache_key, !.before = cache, !.result = exc]
  /\ UNCHANGED <<cache, admitted>>

\* from the pruning to the return, for the history read at time now: the
\* call ends with "False" at the first check that denies, with KeyError at a
\* check whose threshold is missing, with the exception of cache.set, or
\* with "True"
Return(t, self, request, now, read) ==
  LET key == self.cache_key[1]
      e == Evaluated(self, now, read)
      denied == Denied(e.self)
      result == IF denied = "KeyError" THEN "KeyError"
                ELSE IF denied # "" THEN "False"
                ELSE IF StoreRaises THEN "CacheError"
                ELSE "True"
      again == call.result = "False" /\ call.key = Some(key)
  IN  /\ throttle' = [throttle EXCEPT ![t] = e.self]
      /\ ret' = [ret EXCEPT ![t] = [allow |-> result, now |-> now, read |-> read]]
      /\ cache' = IF result = "True" THEN Accepted(key, e.history, now)
                                     ELSE Rejected(key, e.history)
      /\ admitted' = IF result = "True" THEN [admitted EXCEPT ![key] = Append(@, now)]
                                        ELSE admitted
      /\ call' = [throttle |-> t, request |-> Some(request), key |-> Some(key),
                  now |-> now, read |-> read, before |-> cache,
                  admitted_before |-> admitted[key], result |-> result,
                  run |-> IF result # "False" THEN 0 ELSE IF again THEN call.run + 1 ELSE 1,
                  run_before |-> IF result # "False" THEN None
                                 ELSE IF again THEN call.run_before
                                 ELSE IF key \in DOMAIN cache THEN Some(cache[key])
                                 ELSE None]

AllCallsEnded == \A t \in Throttles : frame[t].pc = "idle"

\* allow_request run from its first line to its return with no other call
\* in between
AllowRequest(t, request) ==
  /\ request \in RequestsOf(throttle[t].cls)
  /\ ncalls < MaxCalls
  /\ AllCallsEnded
  /\ ncalls' = ncalls + 1
  /\ waited' = NoWait
  /\ UNCHANGED <<clock, settings, frame, outage>>
  /\ LET e == Entered(throttle[t], request)
     IN  IF e.raised # "" THEN Raise(t, request, e.raised)
         ELSE IF e.fallback THEN Fallback(t, e.self, request)
         ELSE IF StoreRaises THEN Failed(t, e.self, request, "CacheError")
         ELSE Return(t, e.self, request, clock, cache_get(e.self.cache_key[1]))

\* allow_request up to and including history = cache.get(self.cache_key, [])
Begin(t, request) ==
  /\ ncalls < MaxRaceCalls
  /\ frame[t].pc = "idle"
  /\ ncalls' = ncalls + 1
  /\ waited' = NoWait
  /\ UNCHANGED <<clock, settings, outage>>
  /\ LET e == Entered(throttle[t], request)
     IN  IF e.raised # "" THEN Raise(t, request, e.raised) /\ UNCHANGED frame
         ELSE IF e.fallback THEN Fallback(t, e.self, request) /\ UNCHANGED frame
         ELSE IF StoreRaises
           THEN Failed(t, e.self, request, "CacheError") /\ UNCHANGED frame
         ELSE /\ throttle' = [throttle EXCEPT ![t] = e.self]
              /\ frame' = [frame EXCEPT ![t] = [pc |-> "read", request |-> Some(request),
                                                now |-> clock,
                                                history |-> cache_get(e.self.cache_key[1])]]
              /\ ret' = [ret EXCEPT ![t] = NoRet]
              /\ UNCHANGED <<cache, call, admitted>>

\* the rest of allow_request, from the pruning on
Finish(t) ==
  /\ frame[t].pc = "read"
  /\ Return(t, throttle[t], frame[t].request[1], frame[t].now, frame[t].history)
  /\ frame' = [frame EXCEPT ![t] = Idle]
  /\ waited' = NoWait
  /\ UNCHANGED <<clock, settings, ncalls, outage>>

\* wait() on a throttle object that is not inside allow_request
Wait(t) ==
  /\ frame[t].pc = "idle"
  /\ waited' = IF wait_raises(throttle[t])
                 THEN [throttle |-> t, value |-> None, raised |-> "KeyError"]
                 ELSE [throttle |-> t, value |-> wait(throttle[t]), raised |-> ""]
  /\ UNCHANGED <<clock, cache, settings, throttle, frame, ret, call, admitted, ncalls,
                 outage>>

\* time passes: time.time() reads a later instant
Tick(instant) ==
  /\ instant > clock
  /\ clock' = instant
  /\ waited' = NoWait
  /\ UNCHANGED <<cache, settings, throttle, frame, ret, call, admitted, ncalls, outage>>

\* the cache backend becomes unreachable, or reachable again
Outage(down) ==
  /\ down # outage
  /\ outage' = down
  /\ waited' = NoWait
  /\ UNCHANGED <<clock, cache, settings, throttle, frame, ret, call, admitted, ncalls>>

\* the calls of allow_request run one at a time
Next ==
  \/ \E t \in Throttles, request \in Requests : AllowRequest(t, request)
  \/ \E t \in Throttles : Wait(t)
  \/ \E instant \in Instants : Tick(instant)

Spec == Init /\ [][Next]_vars

\* the requests of one authenticated user for one document
RaceRequests == { request \in Requests : request.is_authenticated /\ request.pk = "d1" }

\* the calls of allow_request for the same document or user interleave
\* between the read and the write
RaceNext ==
  \/ \E t \in Throttles, request \in RaceRequests : Begin(t, request)
  \/ \E t \in Throttles : Finish(t)
  \/ \E t \in Throttles : Wait(t)
  \/ \E instant \in Instants : Tick(instant)

RaceSpec == Init /\ [][RaceNext]_vars

\* deployments whose settings lack a threshold: __init__ assigns
\* self.rates whatever the setting holds
IncompleteDeployments ==
  { [document |-> [minute |-> 1, hour |-> 2], user |-> [hour |-> 2, day |-> 3],
     t1 |-> "AIDocumentRateThrottle", t2 |-> "AIUserRateThrottle"],
    [document |-> [minute |-> 1, day |-> 2], user |-> [minute |-> 1, hour |-> 1],
     t1 |-> "AIDocumentRateThrottle", t2 |-> "AIUserRateThrottle"] }

ConfigInit == Start(IncompleteDeployments)

ConfigSpec == ConfigInit /\ [][Next]_vars

\* deployments whose document and user throttles have equal rates
TwinDeployments ==
  { [document |-> Rates(1, 2, 2), user |-> Rates(1, 2, 2),
     t1 |-> "AIDocumentRateThrottle", t2 |-> "AIUserRateThrottle"],
    [document |-> Rates(2, 2, 2), user |-> Rates(2, 2, 2),
     t1 |-> "AIDocumentRateThrottle", t2 |-> "AIUserRateThrottle"] }

SerialInit == Start(Deployments \cup TwinDeployments)

\* a call of allow_request begun when no other call is in flight
Call(t, request) == AllCallsEnded /\ Begin(t, request)

\* the calls of allow_request run one at a time, time passing inside a call
SerialNext ==
  \/ \E t \in Throttles, request \in RaceRequests : Call(t, request)
  \/ \E t \in Throttles : Finish(t)
  \/ \E t \in Throttles : Wait(t)
  \/ \E instant \in Instants : Tick(instant)

SerialSpec == SerialInit /\ [][SerialNext]_vars

\* time passes between two calls
Pause(instant) == AllCallsEnded /\ Tick(instant)

\* a document throttle and a user throttle with equal rates, their calls run
\* one at a time, each within one instant
TwinNext ==
  \/ \E t \in Throttles, request \in RaceRequests : Call(t, request)
  \/ \E t \in Throttles : Finish(t)
  \/ \E t \in Throttles : Wait(t)
  \/ \E instant \in Instants : Pause(instant)

TwinSpec == Start(TwinDeployments) /\ [][TwinNext]_vars

\* the calls of allow_request run one at a time while the cache backend
\* comes and goes (wait() does not use the cache)
FaultNext ==
  \/ \E t \in Throttles, request \in RaceRequests : Call(t, request)
  \/ \E t \in Throttles : Finish(t)
  \/ \E instant \in Instants : Tick(instant)
  \/ \E down \in BOOLEAN : Outage(down)

FaultSpec == Init /\ [][FaultNext]_vars

\* ------------------------------------------------------------------ claims

\* the entry of a key in a cache, None when the key is absent
Entry(c, key) == IF key \in DOMAIN c THEN Some(c[key]) ELSE None

\* the number of timestamps of seq in the window (T - w, T]
InWindow(seq, T, w) == Cardinality({ i \in 1..Len(seq) : seq[i] > T - w /\ seq[i] <= T })

\* the number of timestamps of H in the trailing w seconds at time now
Trailing(H, now, w) == Cardinality({ i \in 1..Len(H) : now - H[i] < w })

\* the class whose get_cache_key derives the key, and its rates
ClassOf ==
  [key \in Keys |->
     CHOOSE c \in Classes : \E r \in Requests : get_cache_key(c, r).key = Some(key)]

RatesOf(key) == settings[ClassOf[key]]

\* the last allow_request ran the limiter: it returned True or False for a key
Decided == call.result \in {"True", "False"} /\ call.key # None

CallRates == throttle[call.throttle].rates

\* C1: when the allow_request calls on a key run one at a time and the clock
\* never goes backwards, then for every key and every instant T at most
\* rates.minute admitted calls have their timestamp in (T-60, T], at most
\* rates.hour in (T-3600, T] and at most rates.day in (T-86400, T].  (The
\* count of a window is largest when T is an admitted timestamp, and every
\* timestamp is one of Instants; a key with no admitted call has none in any
\* window.)
C1_TrailingLimits ==
  \A key \in Keys :
    \/ admitted[key] = <<>>
    \/ \A T \in Instants :
         /\ InWindow(admitted[key], T, MINUTE) <= RatesOf(key).minute
         /\ InWindow(admitted[key], T, HOUR) <= RatesOf(key).hour
         /\ InWindow(admitted[key], T, DAY) <= RatesOf(key).day

\* a key with as many admissions in the last day as rates.day allows and a
\* further call on it denied
C1_Witness ==
  /\ Decided
  /\ call.result = "False"
  /\ InWindow(admitted[call.key[1]], clock, DAY) = RatesOf(call.key[1]).day
  /\ InWindow(admitted[call.key[1]], clock, MINUTE) < RatesOf(call.key[1]).minute

\* C2: window independence: if the history the call read has fewer than
\* rates.minute timestamps in the trailing 60 s, fewer than rates.hour in the
\* trailing 3600 s and fewer than rates.day in the trailing 86400 s, the call
\* returns True.
C2_WindowIndependence ==
  Decided =>
    ( ( /\ Trailing(call.read, call.now, MINUTE) < CallRates.minute
        /\ Trailing(call.read, call.now, HOUR) < CallRates.hour
        /\ Trailing(call.read, call.now, DAY) < CallRates.day )
      => call.result = "True" )

\* a call admitted on a history that holds a timestamp of the last minute, so
\* that every window has a count above zero and below its threshold
C2_Witness ==
  /\ Decided
  /\ call.result = "True"
  /\ Trailing(call.read, call.now, MINUTE) > 0
  /\ Trailing(call.read, call.now, DAY) > Trailing(call.read, call.now, MINUTE)

\* C3: monotonic denial: if the count of the history the call read reaches
\* the threshold in at least one of the three windows, the call returns False
\* whatever the counts of the other two windows are.
C3_MonotonicDenial ==
  Decided =>
    ( ( \/ Trailing(call.read, call.now, MINUTE) >= CallRates.minute
        \/ Trailing(call.read, call.now, HOUR) >= CallRates.hour
        \/ Trailing(call.read, call.now, DAY) >= CallRates.day )
      => call.result = "False" )

\* a call denied by the day window alone: the minute and the hour window are
\* below their thresholds
C3_Witness ==
  /\ Decided
  /\ call.result = "False"
  /\ Trailing(call.read, call.now, DAY) >= CallRates.day
  /\ Trailing(call.read, call.now, HOUR) < CallRates.hour
  /\ Trailing(call.read, call.now, MINUTE) < CallRates.minute

\* C4: non-accumulation on denial: a call that returns False writes nothing:
\* the cache is the same after it as before it, and the entry of the key is
\* the same as before the whole run of consecutive denied calls on the key
\* that it ends.
C4_DeniedWritesNothing ==
  (Decided /\ call.result = "False") =>
    /\ cache = call.before
    /\ Entry(cache, call.key[1]) = call.run_before

\* two consecutive denied calls on a key whose stored history is not empty
C4_Witness ==
  /\ Decided
  /\ call.result = "False"
  /\ call.run >= 2
  /\ Entry(cache, call.key[1]) # None

\* the history stored for the key of the last call: what cache.get returns
Stored == cache_get(call.key[1])

\* C5 as stated: after any allow_request on a key, whether it admits or
\* denies, the history stored for the key holds no timestamp older than
\* 86400 seconds relative to the call's now.
C5_StoredPrunedAfterAnyCall ==
  Decided => \A i \in 1..Len(Stored) : ~(call.now - Stored[i] > DAY)

\* C5 amended: after an allow_request that admits, the history stored for
\* the key holds no timestamp older than 86400 seconds relative to the call's
\* now; a call that denies prunes only the copy it counts: the day count it
\* leaves counts no such timestamp, and the store is left as it was.
C5_StoredPrunedAfterAdmit ==
  /\ (Decided /\ call.result = "True") =>
       \A i \in 1..Len(Stored) : ~(call.now - Stored[i] > DAY)
  /\ (Decided /\ call.result = "False") =>
       /\ throttle[call.throttle].recent_requests_day = Trailing(call.read, call.now, DAY)
       /\ Entry(cache, call.key[1]) = Entry(call.before, call.key[1])

\* a call that read a timestamp older than 86400 seconds and admitted
C5_Witness ==
  /\ Decided
  /\ call.result = "True"
  /\ \E i \in 1..Len(call.read) : call.now - call.read[i] > DAY

\* the history read without its timestamps t <= now - 86400
Fresh(H, now) == SelectSeq(H, LAMBDA t : ~(t <= now - DAY))

\* C6: an allow_request that returns True at time now writes back, under
\* the same key, the history it read with every timestamp t <= now - 86400
\* removed and now appended as the last element, with the entry's expiry
\* 86400 seconds from now.
C6_AdmittedWrite ==
  (Decided /\ call.result = "True") =>
    Entry(cache, call.key[1]) =
      Some([value |-> Append(Fresh(call.read, call.now), call.now),
            expires |-> call.now + 86400])

\* an admitted call that read a history of a timestamp to remove and one to
\* keep
C6_Witness ==
  /\ Decided
  /\ call.result = "True"
  /\ \E i \in 1..Len(call.read) : call.read[i] <= call.now - DAY
  /\ \E i \in 1..Len(call.read) : call.read[i] > call.now - DAY

\* the counts the last allow_request of a throttle object left on it
MinuteCount(t) ==
  IF ret[t].allow \in {"True", "False"} THEN Trailing(ret[t].read, ret[t].now, MINUTE)
  ELSE throttle[t].recent_requests_minute

HourCount(t) ==
  IF ret[t].allow \in {"True", "False"} THEN Trailing(ret[t].read, ret[t].now, HOUR)
  ELSE throttle[t].recent_requests_hour

DayCount(t) ==
  IF ret[t].allow \in {"True", "False"} THEN Trailing(ret[t].read, ret[t].now, DAY)
  ELSE throttle[t].recent_requests_day

\* C7: escalating backoff: wait() returns 86400 if day_count >= rates.day,
\* otherwise 3600 if hour_count >= rates.hour, otherwise 60 if
\* minute_count >= rates.minute, otherwise None.
C7_EscalatingBackoff ==
  waited.throttle # "" =>
    LET t == waited.throttle
        rates == throttle[t].rates
    IN  /\ DayCount(t) >= rates.day => waited.value = Some(86400)
        /\ (DayCount(t) < rates.day /\ HourCount(t) >= rates.hour)
             => waited.value = Some(3600)
        /\ (DayCount(t) < rates.day /\ HourCount(t) < rates.hour
              /\ MinuteCount(t) >= rates.minute)
             => waited.value = Some(60)
        /\ (DayCount(t) < rates.day /\ HourCount(t) < rates.hour
              /\ MinuteCount(t) < rates.minute)
             => waited.value = None

\* wait() after a call denied with the day and the minute window full and
\* the hour window not
C7_Witness ==
  /\ waited.throttle # ""
  /\ ret[waited.throttle].allow = "False"
  /\ DayCount(waited.throttle) >= throttle[waited.throttle].rates.day
  /\ MinuteCount(waited.throttle) >= throttle[waited.throttle].rates.minute
  /\ HourCount(waited.throttle) < throttle[waited.throttle].rates.hour
  /\ waited.value = Some(86400)

\* the last allow_request was made on the identity-scoped throttle for an
\* unauthenticated request with no forwarded-for header and no REMOTE_ADDR
NoClientIP ==
  /\ call.result # ""
  /\ throttle[call.throttle].cls = "AIUserRateThrottle"
  /\ ~call.request[1].is_authenticated
  /\ XFF \notin DOMAIN call.request[1].META
  /\ ADDR \notin DOMAIN call.request[1].META

\* C8: fail-open on undefined key: for an unauthenticated request from which
\* no client IP can be determined, key derivation yields an empty or
\* undefined key and allow_request returns True and leaves the store alone.
C8_FailOpenWithoutIP ==
  NoClientIP =>
    /\ call.key \in {None, Some("")}
    /\ call.result = "True"
    /\ cache = call.before

\* C9: admission is visible to the next call: with rates {minute: 1, hour: 5,
\* day: 10} a call that reads an empty history returns True and leaves a
\* history of exactly one entry; and a call made when rates.minute admissions
\* on the key lie within the last 60 seconds, with the hour and the day
\* threshold not reached, returns False, and wait() then returns 60.
C9_AdmissionVisible ==
  Decided =>
    LET prior == call.admitted_before
        key == call.key[1]
    IN  /\ (CallRates = Rates(1, 5, 10) /\ call.read = <<>>) =>
             /\ call.result = "True"
             /\ Entry(cache, key) # None
             /\ Len(cache[key].value) = 1
        /\ ( /\ InWindow(prior, call.now, MINUTE) >= CallRates.minute
             /\ InWindow(prior, call.now, HOUR) < CallRates.hour
             /\ InWindow(prior, call.now, DAY) < CallRates.day ) =>
             /\ call.result = "False"
             /\ waited.throttle = call.throttle => waited.value = Some(60)

\* with rates {minute: 1, hour: 5, day: 10}: one admission on the key, a
\* second call less than 60 seconds later denied, and wait() returning 60
C9_Witness ==
  /\ Decided
  /\ CallRates = Rates(1, 5, 10)
  /\ Len(call.admitted_before) = 1
  /\ call.now - call.admitted_before[1] > 0
  /\ call.now - call.admitted_before[1] < 60
  /\ call.result = "False"
  /\ waited.throttle = call.throttle
  /\ waited.value = Some(60)

\* two throttle objects whose last calls, on the same key, read at the same
\* instant the same history, and both returned True
BothAdmitted(t1, t2) ==
  /\ t1 # t2
  /\ ret[t1].allow = "True"
  /\ ret[t2].allow = "True"
  /\ throttle[t1].cache_key # None
  /\ throttle[t1].cache_key = throttle[t2].cache_key
  /\ ret[t1].now = ret[t2].now
  /\ ret[t1].read = ret[t2].read

\* C10: check-then-act race: when two interleaved calls on a key read the
\* same history with exactly one slot left in a window and both return True,
\* both write back the same history (the store keeps one of the two
\* admissions) and the number of admitted requests in that window exceeds
\* its threshold.
C10_RaceOvershoot ==
  \A t1, t2 \in Throttles :
    BothAdmitted(t1, t2) =>
      LET key == throttle[t1].cache_key[1]
          now == ret[t1].now
          read == ret[t1].read
          rates == throttle[t1].rates
      IN  /\ Entry(cache, key) # None
          /\ cache[key].value = Append(Fresh(read, now), now)
          /\ Trailing(read, now, MINUTE) = rates.minute - 1
               => InWindow(admitted[key], now, MINUTE) > rates.minute
          /\ Trailing(read, now, HOUR) = rates.hour - 1
               => InWindow(admitted[key], now, HOUR) > rates.hour
          /\ Trailing(read, now, DAY) = rates.day - 1
               => InWindow(admitted[key], now, DAY) > rates.day

\* both calls read a history with one slot left in the minute window, and
\* the admitted requests of that minute exceed rates.minute
C10_Witness ==
  \E t1, t2 \in Throttles :
    /\ BothAdmitted(t1, t2)
    /\ ret[t1].read # <<>>
    /\ Trailing(ret[t1].read, ret[t1].now, MINUTE) = throttle[t1].rates.minute - 1
    /\ InWindow(admitted[throttle[t1].cache_key[1]], ret[t1].now, MINUTE)
         > throttle[t1].rates.minute

\* the callers that invoke allow_request concurrently on one key
Racers == Cardinality(Throttles)

\* C11: bounded overshoot under the race: with N callers concurrently and
\* repeatedly invoking allow_request on the same key, the number of admitted
\* requests inside any one window never exceeds that window's threshold by
\* more than N-1.
C11_BoundedOvershoot ==
  \A key \in Keys :
    \/ admitted[key] = <<>>
    \/ \A T \in Instants :
         /\ InWindow(admitted[key], T, MINUTE) <= RatesOf(key).minute + (Racers - 1)
         /\ InWindow(admitted[key], T, HOUR) <= RatesOf(key).hour + (Racers - 1)
         /\ InWindow(admitted[key], T, DAY) <= RatesOf(key).day + (Racers - 1)

\* what cache.get(key, []) returns at time now from the cache c
Visible(c, key, now) ==
  IF key \in DOMAIN c /\ now < c[key].expires THEN c[key].value ELSE <<>>

\* C12: key independence: an allow_request on key k reads and writes only
\* the entry of k: the history it counts is the one the cache held for k,
\* the entry of every other key is the same after the call as before it, and
\* two calls that read equal histories at the same time under the same rates
\* return the same result, whatever the cache holds for other keys.
C12_KeyIndependence ==
  /\ call.result # "" =>
       \A k \in Keys : call.key # Some(k) => Entry(cache, k) = Entry(call.before, k)
  /\ Decided => call.read = Visible(call.before, call.key[1], call.now)
  /\ \A t1, t2 \in Throttles :
       ( /\ ret[t1].allow \in {"True", "False"}
         /\ ret[t2].allow \in {"True", "False"}
         /\ ret[t1].read = ret[t2].read
         /\ ret[t1].now = ret[t2].now
         /\ throttle[t1].rates = throttle[t2].rates )
       => ret[t1].allow = ret[t2].allow

\* a call admitted on one key, and so writing its entry, while the cache
\* holds the history of another key
C12_Witness ==
  /\ Decided
  /\ call.result = "True"
  /\ Entry(cache, call.key[1]) # Entry(call.before, call.key[1])
  /\ \E k \in DOMAIN call.before : k # call.key[1] /\ call.before[k].value # <<>>

\* C13: store errors are propagated: a call that reaches cache.get while
\* the backend is unreachable ends there with the exception: it returns
\* neither True nor False, goes on with no history (an empty one included)
\* and writes nothing; a call that reaches cache.set while the backend is
\* unreachable does not return True and leaves the cache as it was.
C13_StoreErrorsPropagate ==
  [][ outage =>
        /\ ncalls' = ncalls + 1 =>
             /\ frame' = frame
             /\ cache' = cache
             /\ admitted' = admitted
             /\ call'.result \notin {"True", "False"}
             /\ ret'[call'.throttle].allow = call'.result
        /\ \A t \in Throttles :
             (frame[t].pc = "read" /\ frame'[t].pc = "idle") =>
               /\ ret'[t].allow \in {"False", "CacheError"}
               /\ cache' = cache
               /\ admitted' = admitted ]_vars

\* the backend is unreachable and the last call ended with its exception at
\* cache.get, while the cache holds a history for the key that cache.get
\* would have returned
C13_Witness ==
  /\ outage
  /\ call.result = "CacheError"
  /\ call.read = <<>>
  /\ Visible(cache, call.key[1], call.now) # <<>>

\* the rates hold the three thresholds
Complete(rates) == {"minute", "hour", "day"} \subseteq DOMAIN rates

\* C14: fail-fast configuration: a throttle object whose rates lack a
\* threshold does not exist past its construction, so that no allow_request
\* and no wait() has been called on one.
C14_FailFast ==
  \A t \in Throttles :
    \/ Complete(throttle[t].rates)
    \/ ret[t].allow = "" /\ waited.throttle # t

\* C15: on one throttle object wait() returns None exactly when the object's
\* most recent allow_request admitted or allow_request was never called on
\* it; after an allow_request that returned False, wait() returns 60, 3600
\* or 86400 and never None.
C15_WaitNoneIffAdmitted ==
  waited.throttle # "" =>
    /\ waited.value = None <=> ret[waited.throttle].allow \in {"True", ""}
    /\ ret[waited.throttle].allow = "False"
         => waited.value \in {Some(60), Some(3600), Some(86400)}

\* the three thresholds are at least 1
Positive(rates) == rates.minute >= 1 /\ rates.hour >= 1 /\ rates.day >= 1

\* the step in which the allow_request of t returns
Returns(t) == frame[t].pc = "read" /\ frame'[t].pc = "idle"

\* C16: retry-after is sufficient: if the last allow_request that ended
\* denied on key k at time T, wait() on its throttle object returns W, the
\* thresholds are at least 1 and the next allow_request to end (so that no
\* request on k was admitted in between) is one on k at time T+W, then that
\* call returns True.
C16_RetryAfterSuffices ==
  [][ \A t \in Throttles :
        ( /\ Returns(t)
          /\ call.result = "False"
          /\ call.key = throttle[t].cache_key
          /\ Positive(throttle[t].rates)
          /\ wait(throttle[call.throttle]) # None
          /\ frame[t].now = call.now + wait(throttle[call.throttle])[1] )
        => ret'[t].allow = "True" ]_vars

\* a call denied at T on one throttle object, whose wait() is W, and the
\* next call on the key, at T+W on the other throttle object, admitted with
\* no admission on the key after T before it
C16_Witness ==
  \E t1, t2 \in Throttles :
    /\ ret[t1].allow = "False"
    /\ ret[t2].allow = "True"
    /\ call.throttle = t2
    /\ call.key = throttle[t1].cache_key
    /\ wait(throttle[t1]) # None
    /\ call.now = ret[t1].now + wait(throttle[t1])[1]
    /\ \A i \in 1..Len(call.admitted_before) : call.admitted_before[i] <= ret[t1].now

\* the last allow_request that ended denied on the key of t with the day
\* and the minute window full, and the call of t that returns in this step
\* was made 60 seconds after it
RetriesAfterMinute(t) ==
  /\ Returns(t)
  /\ call.result = "False"
  /\ call.key = throttle[t].cache_key
  /\ Trailing(call.read, call.now, DAY) >= CallRates.day
  /\ Trailing(call.read, call.now, MINUTE) >= CallRates.minute
  /\ frame[t].now = call.now + MINUTE

\* the call of t that returns in this step is denied with the day window
\* full
DeniedByDay(t) ==
  /\ ret'[t].allow = "False"
  /\ throttle'[t].recent_requests_day >= throttle'[t].rates.day

Younger(H, now, w) == Cardinality({ i \in 1..Len(H) : H[i] > now - w })

OnBoundary(H, now, w) == Cardinality({ i \in 1..Len(H) : H[i] = now - w })

\* C18: window boundaries are exclusive at the old end: the counts an
\* allow_request at time now leaves count a timestamp t in the window of
\* length w exactly when t > now - w, so a timestamp with t = now - 60,
\* t = now - 3600 or t = now - 86400 is not counted in the minute, hour or
\* day count, and the history an admitted call writes holds no timestamp
\* t = now - 86400.
C18_ExclusiveBoundaries ==
  Decided =>
    LET self == throttle[call.throttle]
        H == call.read
        now == call.now
    IN  /\ self.recent_requests_minute = Younger(H, now, MINUTE)
        /\ self.recent_requests_hour = Younger(H, now, HOUR)
        /\ self.recent_requests_day = Younger(H, now, DAY)
        /\ self.recent_requests_minute + OnBoundary(H, now, MINUTE) <= Len(H)
        /\ self.recent_requests_hour + OnBoundary(H, now, HOUR) <= Len(H)
        /\ self.recent_requests_day + OnBoundary(H, now, DAY) <= Len(H)
        /\ call.result = "True" =>
             \A i \in 1..Len(cache[call.key[1]].value) :
               cache[call.key[1]].value[i] # now - DAY

\* an admitted call that read a timestamp exactly 86400 seconds old and one
\* exactly 60 seconds old
C18_Witness ==
  /\ Decided
  /\ call.result = "True"
  /\ OnBoundary(call.read, call.now, DAY) = 1
  /\ OnBoundary(call.read, call.now, MINUTE) = 1
  /\ throttle[call.throttle].recent_requests_minute = 0
  /\ throttle[call.throttle].recent_requests_day = 1

\* what cache.get(key, []) returns from the cache c when entries never
\* expire
Unexpired(c, key) == IF key \in DOMAIN c THEN c[key].value ELSE <<>>

\* C19: store expiry is invisible to decisions: an expired entry holds only
\* timestamps the call would prune, so every allow_request, run after any
\* sequence of calls made one at a time, computes from what it read the
\* pruned history, the three counts, the result and the wait() value it
\* would compute from the entry of a store that never expires.  (The cache
\* keeps the value of an expired entry, and an admitted call writes the
\* pruned history with now appended, so with this property at every call
\* the two stores hold the same values throughout.)
C19_ExpiryInvisible ==
  Decided =>
    LET self == throttle[call.throttle]
        kept == Evaluated(self, call.now, Unexpired(call.before, call.key[1]))
    IN  /\ call.read = Visible(call.before, call.key[1], call.now)
        /\ kept.history = Prune(call.read, call.now)
        /\ kept.self.recent_requests_minute = self.recent_requests_minute
        /\ kept.self.recent_requests_hour = self.recent_requests_hour
        /\ kept.self.recent_requests_day = self.recent_requests_day
        /\ Denied(kept.self) = "" <=> call.result = "True"
        /\ wait(kept.self) = wait(self)

\* a call made when the entry of its key had expired with timestamps in it
C19_Witness ==
  /\ Decided
  /\ call.key[1] \in DOMAIN call.before
  /\ call.now >= call.before[call.key[1]].expires
  /\ call.before[call.key[1]].value # <<>>
  /\ call.read = <<>>

\* the last calls of a document throttle t1 and of a user throttle t2 with
\* equal rates returned True or False for the same time and the same history
\* read
SameInput(t1, t2) ==
  /\ throttle[t1].cls = "AIDocumentRateThrottle"
  /\ throttle[t2].cls = "AIUserRateThrottle"
  /\ throttle[t1].rates = throttle[t2].rates
  /\ ret[t1].allow \in {"True", "False"}
  /\ ret[t2].allow \in {"True", "False"}
  /\ ret[t1].now = ret[t2].now
  /\ ret[t1].read = ret[t2].read

====
